---- MODULE Spec2Model ----
(***************************************************************************)
(* State-machine model of client.py: the microphone capture session        *)
(* (MicrophoneStream), its chunk generator, the transcript dispatcher      *)
(* (listen_print_loop), the backend relay (send_text_to_backend) and the   *)
(* session driver (main).                                                  *)
(*                                                                         *)
(* Three execution contexts are modelled: the audio callback context       *)
(* (_fill_buffer), the request-iterator context that pulls generator(),    *)
(* and the main context (main / listen_print_loop / __exit__).             *)
(***************************************************************************)
EXTENDS Integers, Sequences, FiniteSets, TLC

\* ------------------------------------------------------------ constants
\* client.py:14
STREAM_DURATION_LIMIT == 300

\* ------------------------------------------------------------ bounds
\* MicrophoneStream objects main may construct
MaxSessions == 2
\* audio buffers the callback delivers per session
MaxFrames == 2
\* responses the recognizer delivers per streaming call
MaxResponses == 2
\* audio buffers over all sessions when the whole program is explored
MaxDriverFrames == 1
\* how far the clock may run past the duration limit
MaxSkew == 1

Sessions == 1..MaxSessions

\* ------------------------------------------------------------ text
\* Transcripts are str values: sequences of code points.  An ASCII character
\* is written as itself, any other code point as "U+XXXX".
LowerLetters ==
  <<"a","b","c","d","e","f","g","h","i","j","k","l","m",
    "n","o","p","q","r","s","t","u","v","w","x","y","z">>
UpperLetters ==
  <<"A","B","C","D","E","F","G","H","I","J","K","L","M",
    "N","O","P","Q","R","S","T","U","V","W","X","Y","Z">>
Digits == {"0","1","2","3","4","5","6","7","8","9"}

Range(f) == {f[i] : i \in DOMAIN f}

\* The code points outside ASCII that the texts of this model are written
\* with.  The pattern is a str pattern compiled without re.ASCII, so \w and
\* re.I follow Unicode.
\*   letters and digits:  U+00E9 e with acute, U+00DF sharp s, U+4E2D a CJK
\*   ideograph, U+0130 capital I with dot above, U+0131 dotless i, U+212A
\*   kelvin sign, U+0663 Arabic-Indic digit three, U+00B2 superscript two
\*   punctuation:         U+00A1 inverted exclamation mark
OtherWordChars ==
  {"U+00E9", "U+00DF", "U+4E2D", "U+0130", "U+0131", "U+212A", "U+0663",
   "U+00B2"}
OtherChars == {"U+00A1"}

\* re.I: the lower-case code point the matcher takes for a character of the
\* text
Lower(c) ==
  IF c \in Range(UpperLetters)
    THEN LowerLetters[CHOOSE i \in DOMAIN UpperLetters : UpperLetters[i] = c]
  ELSE IF c = "U+0130" THEN "i"
  ELSE IF c = "U+212A" THEN "k"
  ELSE c

\* re.I: the further code points a lower-case letter of the pattern stands
\* for (of the letters of "exit" and "quit" only "i" has one: dotless i)
CaseFixes(l) == IF l = "i" THEN {"U+0131"} ELSE {}

\* re.I: character c of the text matches the letter l of the pattern
IgnoreCaseEq(c, l) == Lower(c) \in {l} \cup CaseFixes(l)

\* \w of the regular expression: letters, digits and the underscore
IsWordChar(c) ==
  c \in Range(LowerLetters) \cup Range(UpperLetters) \cup Digits \cup {"_"}
         \cup OtherWordChars

\* \b holds in front of index p (p = Len(t) + 1 is the end of the text)
WordBoundary(t, p) ==
  LET before == p > 1 /\ IsWordChar(t[p - 1])
      after  == p <= Len(t) /\ IsWordChar(t[p])
  IN  before # after

ExitWords == { <<"e","x","i","t">>, <<"q","u","i","t">> }

\* re.search(r"\b(exit|quit)\b", transcript, re.I)
ExitPhraseNoBoundary(t) ==
  \E i \in 1..(Len(t) - 3), w \in ExitWords :
    \A k \in 1..4 : IgnoreCaseEq(t[i + k - 1], w[k])

ExitPhrase(t) ==
  \E i \in 1..(Len(t) - 3), w \in ExitWords :
    /\ \A k \in 1..4 : IgnoreCaseEq(t[i + k - 1], w[k])
    /\ WordBoundary(t, i)
    /\ WordBoundary(t, i + 4)

\* ------------------------------------------------------------ queue items
\* An item of queue.Queue: an audio buffer (bytes) or the sentinel None.
Item(b) == [none |-> FALSE, bytes |-> b]
None == [none |-> TRUE, bytes |-> << >>]

\* in_data handed to the callback by the audio subsystem
Frames == { <<1>>, <<2, 3>> }

RECURSIVE Join(_)
\* b"".join(data)
Join(data) == IF data = << >> THEN << >> ELSE Head(data) \o Join(Tail(data))

\* the audio buffers among a sequence of queue items, in order
RECURSIVE Buffers(_)
Buffers(items) ==
  IF items = << >> THEN << >>
  ELSE IF Head(items).none THEN Buffers(Tail(items))
       ELSE <<Head(items).bytes>> \o Buffers(Tail(items))

IsPrefix(a, b) == Len(a) <= Len(b) /\ SubSeq(b, 1, Len(a)) = a

\* ------------------------------------------------------------ responses
\* A StreamingRecognizeResponse, as far as listen_print_loop reads it.
Alternative(t) == [transcript |-> t]
Result(alts, final) == [alternatives |-> alts, is_final |-> final]
Response(results) == [results |-> results]

Interim(t) == Response(<<Result(<<Alternative(t)>>, FALSE)>>)
Final(t) == Response(<<Result(<<Alternative(t)>>, TRUE)>>)
NoResults == Response(<< >>)
NoAlternatives(final) == Response(<<Result(<< >>, final)>>)

T_empty == << >>
T_hi == <<"h","i">>
T_hello == <<"h","e","l","l","o">>
T_exit == <<"e","x","i","t">>
T_QUIT == <<"Q","U","I","T">>
T_exiting == <<"e","x","i","t","i","n","g">>
T_go_quit_x == <<"g","o"," ","q","u","i","t",","," ","x">>
T_please_exit_now ==
  <<"p","l","e","a","s","e"," ","e","x","i","t"," ","n","o","w">>

\* "exit" after e with acute, "EXIT" with dotted capital I, "exit" with
\* dotless i
T_eacute_exit == <<"U+00E9","e","x","i","t">>
T_EXIT_dotted == <<"E","X","U+0130","T">>
T_exit_dotless == <<"e","x","U+0131","t">>

Transcripts ==
  {T_empty, T_hi, T_hello, T_exit, T_QUIT, T_exiting, T_please_exit_now,
   T_eacute_exit, T_EXIT_dotted}

\* every response the recognizer may deliver
Responses ==
  {NoResults, NoAlternatives(FALSE), NoAlternatives(TRUE)}
    \cup {Interim(t) : t \in Transcripts}
    \cup {Final(t) : t \in Transcripts}

\* what the backend does with one POST
RequestExceptions == {"ConnectionError", "HTTPError", "ChunkedEncodingError"}
RelayOutcomes == {"ok", "UnicodeDecodeError"} \cup RequestExceptions

\* ------------------------------------------------------------ relay
\* send_text_to_backend(transcript) when the backend behaves as `outcome`:
\* the POSTs issued, the lines printed, and the exception that leaves the
\* function ("none" when it returns).
send_text_to_backend_unguarded(transcript, outcome) ==
  [ requests |-> << [Question |-> transcript] >>,
    logged   |-> outcome \in RequestExceptions,
    raised   |-> IF outcome \in RequestExceptions \cup {"ok"}
                   THEN "none" ELSE outcome ]

send_text_to_backend_uncaught(transcript, outcome) ==
  IF transcript # << >>
    THEN [ requests |-> << [Question |-> transcript] >>,
           logged   |-> FALSE,
           raised   |-> IF outcome = "ok" THEN "none" ELSE outcome ]
    ELSE [ requests |-> << >>, logged |-> FALSE, raised |-> "none" ]

send_text_to_backend(transcript, outcome) ==
  IF transcript # << >>
    THEN [ requests |-> << [Question |-> transcript] >>,
           logged   |-> outcome \in RequestExceptions,
           raised   |-> IF outcome \in RequestExceptions \cup {"ok"}
                          THEN "none" ELSE outcome ]
    ELSE [ requests |-> << >>, logged |-> FALSE, raised |-> "none" ]

\* ------------------------------------------------------------ dispatcher
\* " " * n (the empty string for n <= 0)
Spaces(n) == [i \in 1..(IF n > 0 THEN n ELSE 0) |-> " "]

\* overwrite_chars without the subtraction of len(transcript)
overwrite_chars_whole_line(num, t) == Spaces(num)

\* overwrite_chars = " " * (num_chars_printed - len(transcript))
overwrite_chars(num, t) == Spaces(num - Len(t))

\* the `continue` guards at the top of the loop body
Skipped(r) ==
  \/ r.results = << >>
  \/ r.results[1].alternatives = << >>

\* whether the body treats the result as final
TreatedAsFinalAlways(r) == TRUE

TreatedAsFinal(r) == r.results[1].is_final

\* The loop body with two slips switched on or off: skipResets (a skipped
\* response sets num_chars_printed to 0) and finalOnly (`transcript` is
\* assigned in the final branch only).
LoopBodyVariant(r, outcome, num, tr, skipResets, finalOnly) ==
  IF Skipped(r)
    THEN [ num_chars_printed |-> IF skipResets THEN 0 ELSE num,
           transcript |-> tr,
           writes |-> << >>, requests |-> << >>, searched |-> FALSE,
           control |-> "continue", exc |-> "none" ]
    ELSE
      LET t == r.results[1].alternatives[1].transcript
          ow == overwrite_chars(num, t)
          bound == [bound |-> TRUE, text |-> t]
      IN
      IF ~TreatedAsFinal(r)
        THEN [ num_chars_printed |-> Len(t),
               transcript |-> IF finalOnly THEN tr ELSE bound,
               writes |-> << t \o ow \o <<"\r">> >>, requests |-> << >>,
               searched |-> FALSE,
               control |-> "continue", exc |-> "none" ]
        ELSE
          LET sent == send_text_to_backend(t, outcome) IN
          IF sent.raised # "none"
            THEN [ num_chars_printed |-> num, transcript |-> bound,
                   writes |-> << t \o ow \o <<"\n">> >>,
                   requests |-> sent.requests, searched |-> FALSE,
                   control |-> "raise", exc |-> sent.raised ]
          ELSE IF ExitPhrase(t)
            THEN [ num_chars_printed |-> num, transcript |-> bound,
                   writes |-> << t \o ow \o <<"\n">>, <<"Exiting..", "\n">> >>,
                   requests |-> sent.requests, searched |-> TRUE,
                   control |-> "break", exc |-> "none" ]
          ELSE [ num_chars_printed |-> 0, transcript |-> bound,
                 writes |-> << t \o ow \o <<"\n">> >>,
                 requests |-> sent.requests, searched |-> TRUE,
                 control |-> "continue", exc |-> "none" ]

LoopBodyFinalOnly(r, outcome, num, tr) ==
  LoopBodyVariant(r, outcome, num, tr, FALSE, TRUE)

LoopBodySkipResets(r, outcome, num, tr) ==
  LoopBodyVariant(r, outcome, num, tr, TRUE, FALSE)

\* One pass of the body of `for response in responses`, from the locals
\* (num, tr) with the backend behaving as `outcome`.  control is how the
\* pass ends: "continue", "break", or "raise" (with exc the exception).
LoopBody(r, outcome, num, tr) ==
  IF Skipped(r)
    THEN [ num_chars_printed |-> num, transcript |-> tr,
           writes |-> << >>, requests |-> << >>, searched |-> FALSE,
           control |-> "continue", exc |-> "none" ]
    ELSE
      LET t == r.results[1].alternatives[1].transcript
          ow == overwrite_chars(num, t)
          bound == [bound |-> TRUE, text |-> t]
      IN
      IF ~TreatedAsFinal(r)
        THEN [ num_chars_printed |-> Len(t), transcript |-> bound,
               writes |-> << t \o ow \o <<"\r">> >>, requests |-> << >>,
               searched |-> FALSE,
               control |-> "continue", exc |-> "none" ]
        ELSE
          LET sent == send_text_to_backend(t, outcome) IN
          IF sent.raised # "none"
            THEN [ num_chars_printed |-> num, transcript |-> bound,
                   writes |-> << t \o ow \o <<"\n">> >>,
                   requests |-> sent.requests, searched |-> FALSE,
                   control |-> "raise", exc |-> sent.raised ]
          ELSE IF ExitPhrase(t)
            THEN [ num_chars_printed |-> num, transcript |-> bound,
                   writes |-> << t \o ow \o <<"\n">>, <<"Exiting..", "\n">> >>,
                   requests |-> sent.requests, searched |-> TRUE,
                   control |-> "break", exc |-> "none" ]
          ELSE [ num_chars_printed |-> 0, transcript |-> bound,
                 writes |-> << t \o ow \o <<"\n">> >>,
                 requests |-> sent.requests, searched |-> TRUE,
                 control |-> "continue", exc |-> "none" ]

\* `return transcript` after the loop: the name is unbound when no pass
\* of the body got as far as line 118.
ReturnTranscript(tr) ==
  IF tr.bound THEN "none" ELSE "UnboundLocalError"

\* ------------------------------------------------------------ state
VARIABLES
  pc,                 \* position of main: "loop", "enter_start",
                      \* "enter_mark", "call", "listen", "post",
                      \* "exit_stop", "exit_closed", "exit_put",
                      \* "exit_terminate", "stopped"
  cur,                \* number of MicrophoneStream objects constructed;
                      \* the latest one is the object bound to `stream`
  now,                \* time.time(), in seconds
  stream,             \* per session: the fields of the MicrophoneStream
  gen,                \* per session: the frame of generator()
  enq,                \* per session: every item put on _buff, in order
  yielded,            \* per session: every chunk generator() has yielded
  exc,                \* the exception propagating in main ("none" if none)
  loopEnd,            \* how the for loop of listen_print_loop ended
  exitSession,        \* session in which "Exiting.." was printed (0: none)
  num_chars_printed,  \* local of listen_print_loop
  transcript,         \* local of listen_print_loop (unbound until line 118)
  response,           \* loop variable of listen_print_loop: the response
                      \* taken last (NoResults until the first one)
  processed,          \* passes of the loop body made by the current call
  posts,              \* POST requests issued by the current call
  console             \* what listen_print_loop itself wrote in the current call

vars == <<pc, cur, now, stream, gen, enq, yielded, exc, loopEnd, exitSession,
          num_chars_printed, transcript, response, processed, posts,
          console>>

streamVars == <<stream, gen, enq, yielded>>
loopVars == <<num_chars_printed, transcript, response, processed, posts,
              console>>

\* self.start_time = None
NoTime == -1

\* MicrophoneStream.__init__
NewStream ==
  [buff |-> << >>, closed |-> TRUE, start_time |-> NoTime, device |-> "none"]

NoGenerator == [pc |-> "none", data |-> << >>, at |-> "none"]

Unbound == [bound |-> FALSE, text |-> << >>]

Init ==
  /\ pc = "loop"
  /\ cur = 0
  /\ now = 0
  /\ stream = [s \in Sessions |-> NewStream]
  /\ gen = [s \in Sessions |-> NoGenerator]
  /\ enq = [s \in Sessions |-> << >>]
  /\ yielded = [s \in Sessions |-> << >>]
  /\ exc = "none"
  /\ loopEnd = "none"
  /\ exitSession = 0
  /\ num_chars_printed = 0
  /\ transcript = Unbound
  /\ response = NoResults
  /\ processed = << >>
  /\ posts = << >>
  /\ console = << >>

\* ------------------------------------------------------------ clock
ClockSteps == {1, STREAM_DURATION_LIMIT}

Tick(d) ==
  /\ now' = now + d
  /\ UNCHANGED <<pc, cur, streamVars, exc, loopEnd, exitSession, loopVars>>

\* ------------------------------------------------------------ queue
\* queue.Queue() is built without maxsize: 0, which queue.Queue takes as
\* "no upper bound"
QueueMaxsize == 0

\* put would wait: the queue holds maxsize items (never when maxsize is 0)
QueueFullAtOne(q) == Len(q) >= 1

QueueFull(q) == QueueMaxsize > 0 /\ Len(q) >= QueueMaxsize

\* queue.Queue.put
QueuePut(q, item) == Append(q, item)

\* queue.Queue.get on a non-empty queue: the item taken and what is left
QueueGetLifo(q) == [item |-> q[Len(q)], rest |-> SubSeq(q, 1, Len(q) - 1)]

QueueGet(q) == [item |-> Head(q), rest |-> Tail(q)]

\* ------------------------------------------------------------ callback
\* the callback as it would run if stop_stream() did not silence it
FillBufferAfterStop(s, in_data) ==
  /\ stream[s].device # "none"
  /\ stream' = [stream EXCEPT ![s].buff = QueuePut(@, Item(in_data))]
  /\ enq' = [enq EXCEPT ![s] = Append(@, Item(in_data))]
  /\ UNCHANGED <<pc, cur, now, gen, yielded, exc, loopEnd, exitSession,
                 loopVars>>

\* _fill_buffer, run by the audio subsystem while the device is active;
\* put(in_data) blocks while the queue is full
FillBuffer(s, in_data) ==
  /\ stream[s].device = "active"
  /\ ~QueueFull(stream[s].buff)
  /\ stream' = [stream EXCEPT ![s].buff = QueuePut(@, Item(in_data))]
  /\ enq' = [enq EXCEPT ![s] = Append(@, Item(in_data))]
  /\ UNCHANGED <<pc, cur, now, gen, yielded, exc, loopEnd, exitSession,
                 loopVars>>

\* ------------------------------------------------------------ generator
\* time.time() - self.start_time > STREAM_DURATION_LIMIT
ExpiredNever(t, start) == FALSE

Expired(t, start) == t - start > STREAM_DURATION_LIMIT

Done(at) == [pc |-> "done", data |-> << >>, at |-> at]

\* A pull begins (the first next(), or next() on the suspended generator),
\* line 57: the while condition reads self.closed.
GenPull(s) ==
  /\ gen[s].pc \in {"start", "yield"}
  /\ gen' = [gen EXCEPT ![s] =
       IF stream[s].closed THEN Done("closed")
       ELSE [pc |-> "limit", data |-> << >>, at |-> "none"]]
  /\ UNCHANGED <<pc, cur, now, stream, enq, yielded, exc, loopEnd,
                 exitSession, loopVars>>

\* Lines 58-59: the duration check reads the clock; other threads and the
\* clock may have run since line 57.
GenLimit(s) ==
  /\ gen[s].pc = "limit"
  /\ gen' = [gen EXCEPT ![s] =
       IF Expired(now, stream[s].start_time) THEN Done("timeout")
       ELSE [pc |-> "get", data |-> << >>, at |-> "none"]]
  /\ UNCHANGED <<pc, cur, now, stream, enq, yielded, exc, loopEnd,
                 exitSession, loopVars>>

\* chunk = self._buff.get(): blocks while the queue is empty
GenGet(s) ==
  /\ gen[s].pc = "get"
  /\ stream[s].buff # << >>
  /\ LET got == QueueGet(stream[s].buff) IN
     /\ stream' = [stream EXCEPT ![s].buff = got.rest]
     /\ gen' = [gen EXCEPT ![s] =
          IF got.item.none THEN Done("sentinel")
          ELSE [pc |-> "drain", data |-> <<got.item.bytes>>, at |-> "none"]]
  /\ UNCHANGED <<pc, cur, now, enq, yielded, exc, loopEnd, exitSession,
                 loopVars>>

\* one pass of the drain loop: get(block=False), then append, return on the
\* sentinel, or (queue.Empty) break and yield b"".join(data)
GenDrain(s) ==
  /\ gen[s].pc = "drain"
  /\ IF stream[s].buff = << >>
       THEN /\ yielded' = [yielded EXCEPT ![s] = Append(@, Join(gen[s].data))]
            /\ gen' = [gen EXCEPT ![s] =
                 [pc |-> "yield", data |-> << >>, at |-> "none"]]
            /\ UNCHANGED stream
       ELSE LET got == QueueGet(stream[s].buff) IN
            /\ stream' = [stream EXCEPT ![s].buff = got.rest]
            /\ gen' = [gen EXCEPT ![s] =
                 IF got.item.none THEN Done("sentinel")
                 ELSE [@ EXCEPT !.data = Append(@, got.item.bytes)]]
            /\ UNCHANGED yielded
  /\ UNCHANGED <<pc, cur, now, enq, exc, loopEnd, exitSession, loopVars>>

\* ------------------------------------------------------------ main
\* Where main goes when the body of the `with` statement is left, normally
\* or by an exception: the with statement always runs __exit__.
AfterBodyNoWith(e) == IF e = "none" THEN "exit_stop" ELSE "stopped"

AfterBody(e) == "exit_stop"

\* Where main goes when __exit__ has returned: the exception, if any,
\* propagates out of `while True`; otherwise the loop goes round.
AfterExit(e) == IF e = "none" THEN "loop" ELSE "stopped"

\* Line 158 up to line 37: MicrophoneStream(RATE, CHUNK) and, in __enter__,
\* PyAudio() and open(...), which starts the device: from here on the audio
\* subsystem calls _fill_buffer.  opened = FALSE: the device cannot be
\* opened and __enter__ raises.  The locals of the previous call of
\* listen_print_loop are gone.
EnterOpen(opened) ==
  /\ pc = "loop"
  /\ cur < MaxSessions
  /\ cur' = cur + 1
  /\ IF opened
       THEN /\ stream' = [stream EXCEPT ![cur + 1] =
                 [NewStream EXCEPT !.device = "active"]]
            /\ pc' = "enter_start"
            /\ exc' = "none"
       ELSE /\ UNCHANGED stream
            /\ pc' = "stopped"
            /\ exc' = "OSError"
  /\ loopEnd' = "none"
  /\ num_chars_printed' = 0
  /\ transcript' = Unbound
  /\ response' = NoResults
  /\ processed' = << >>
  /\ posts' = << >>
  /\ console' = << >>
  /\ UNCHANGED <<now, gen, enq, yielded, exitSession>>

\* __enter__, line 38: self.start_time = time.time()
EnterStartTime ==
  /\ pc = "enter_start"
  /\ stream' = [stream EXCEPT ![cur].start_time = now]
  /\ pc' = "enter_mark"
  /\ UNCHANGED <<cur, now, gen, enq, yielded, exc, loopEnd, exitSession,
                 loopVars>>

\* __enter__, lines 39-40: self.closed = False; return self
EnterMarkOpen ==
  /\ pc = "enter_mark"
  /\ stream' = [stream EXCEPT ![cur].closed = FALSE]
  /\ pc' = "call"
  /\ UNCHANGED <<cur, now, gen, enq, yielded, exc, loopEnd, exitSession,
                 loopVars>>

\* Lines 159-167 and 109: stream.generator(), streaming_recognize(...), which
\* starts the consumer of the generator, and the entry of
\* listen_print_loop.
StartCall ==
  /\ pc = "call"
  /\ gen' = [gen EXCEPT ![cur] =
       [pc |-> "start", data |-> << >>, at |-> "none"]]
  /\ num_chars_printed' = 0
  /\ pc' = "listen"
  /\ UNCHANGED <<cur, now, stream, enq, yielded, exc, loopEnd, exitSession,
                 transcript, response, processed, posts, console>>

\* __exit__, lines 44-45: stop_stream() and close()
ExitStop ==
  /\ pc = "exit_stop"
  /\ stream' = [stream EXCEPT ![cur].device = "closed"]
  /\ pc' = "exit_closed"
  /\ UNCHANGED <<cur, now, gen, enq, yielded, exc, loopEnd, exitSession,
                 loopVars>>

\* __exit__, line 46: self.closed = True
ExitMarkClosed ==
  /\ pc = "exit_closed"
  /\ stream' = [stream EXCEPT ![cur].closed = TRUE]
  /\ pc' = "exit_put"
  /\ UNCHANGED <<cur, now, gen, enq, yielded, exc, loopEnd, exitSession,
                 loopVars>>

\* __exit__ without line 47: the sentinel is never enqueued
ExitPutNoSentinel ==
  /\ pc = "exit_put"
  /\ pc' = "exit_terminate"
  /\ UNCHANGED <<cur, now, streamVars, exc, loopEnd, exitSession, loopVars>>

\* __exit__, line 47: self._buff.put(None)
ExitPut ==
  /\ pc = "exit_put"
  /\ stream' = [stream EXCEPT ![cur].buff = QueuePut(@, None)]
  /\ enq' = [enq EXCEPT ![cur] = Append(@, None)]
  /\ pc' = "exit_terminate"
  /\ UNCHANGED <<cur, now, gen, yielded, exc, loopEnd, exitSession, loopVars>>

\* __exit__, line 48: terminate(); then main goes on past the with
\* statement
ExitTerminate ==
  /\ pc = "exit_terminate"
  /\ stream' = [stream EXCEPT ![cur].device = "terminated"]
  /\ pc' = AfterExit(exc)
  /\ UNCHANGED <<cur, now, gen, enq, yielded, exc, loopEnd, exitSession,
                 loopVars>>

\* ------------------------------------------------------------ listen_print_loop
\* whether the pass on r issues the POST and waits for the backend: what a
\* pass does up to there does not depend on the answer
Relays(r) ==
  LoopBody(r, "ok", num_chars_printed, transcript).requests # << >>

\* the pass on r is over, having done b
PassEnds(r, relay, b) ==
  /\ num_chars_printed' = b.num_chars_printed
  /\ processed' = Append(processed,
       [response |-> r,
        relay    |-> relay,
        before   |-> num_chars_printed,
        after    |-> b.num_chars_printed,
        writes   |-> b.writes,
        searched |-> b.searched,
        control  |-> b.control])
  /\ IF b.control = "continue"
       THEN /\ pc' = "listen"
            /\ UNCHANGED <<exc, loopEnd, exitSession>>
       ELSE /\ loopEnd' = b.control
            /\ exc' = b.exc
            /\ exitSession' = IF b.control = "break" THEN cur ELSE exitSession
            /\ pc' = AfterBody(b.exc)

\* The recognizer delivers response r and the loop body runs on it: the
\* whole pass when the relay is not called or issues no POST, otherwise
\* lines 110-128 and 84-88, up to the POST, whose answer main then waits
\* for.
Dispatch(r) ==
  /\ pc = "listen"
  /\ response' = r
  /\ LET b == LoopBody(r, "ok", num_chars_printed, transcript) IN
     /\ transcript' = b.transcript
     /\ posts' = posts \o b.requests
     /\ IF Relays(r)
          THEN /\ console' = Append(console, b.writes[1])
               /\ pc' = "post"
               /\ UNCHANGED <<num_chars_printed, processed, exc, loopEnd,
                              exitSession>>
          ELSE /\ console' = console \o b.writes
               /\ PassEnds(r, "unused", b)
  /\ UNCHANGED <<cur, now, streamVars>>

\* The backend answers the POST as `outcome` (lines 88-104) and the pass
\* goes on to its end (lines 133-137).
RelayAnswers(outcome) ==
  /\ pc = "post"
  /\ LET b == LoopBody(response, outcome, num_chars_printed, transcript) IN
     /\ console' = console \o Tail(b.writes)
     /\ PassEnds(response, outcome, b)
  /\ UNCHANGED <<cur, now, streamVars, transcript, response, posts>>

\* The response iterator is exhausted: the recognizer ends the call once
\* the request iterator (the generator) has ended.  The for loop falls
\* through to `return transcript`.
ResponsesEnd ==
  /\ pc = "listen"
  /\ gen[cur].pc = "done"
  /\ loopEnd' = "exhausted"
  /\ exc' = ReturnTranscript(transcript)
  /\ pc' = AfterBody(exc')
  /\ UNCHANGED <<cur, now, streamVars, exitSession, loopVars>>

\* The response iterator raises (network drop, auth failure, quota).
ResponsesError ==
  /\ pc = "listen"
  /\ loopEnd' = "raise"
  /\ exc' = "RpcError"
  /\ pc' = AfterBody(exc')
  /\ UNCHANGED <<cur, now, streamVars, exitSession, loopVars>>

\* ------------------------------------------------------------ specifications
\* Bounds of the exploration: the clock stops MaxSkew seconds past the
\* duration limit, the audio subsystem delivers at most MaxFrames buffers
\* per session and the recognizer at most MaxResponses responses per call.
ClockRuns(d) == now + d <= STREAM_DURATION_LIMIT + MaxSkew
DeviceDelivers(s) == Len(Buffers(enq[s])) < MaxFrames
RecognizerDelivers == Len(processed) < MaxResponses
RECURSIVE Delivered(_)
Delivered(n) == IF n = 0 THEN 0 ELSE Len(Buffers(enq[n])) + Delivered(n - 1)
DriverDeviceDelivers == Delivered(MaxSessions) < MaxDriverFrames

\* --- Spec: the whole program (main), with few kinds of input
DriverClockSteps == {STREAM_DURATION_LIMIT + 1}
DriverFrames == { <<1>> }
DriverResponses == {Final(T_hi), Final(T_exit)}
DriverOutcomes == {"ok", "UnicodeDecodeError"}

Next ==
  \/ \E d \in DriverClockSteps : ClockRuns(d) /\ Tick(d)
  \/ \E opened \in BOOLEAN : EnterOpen(opened)
  \/ EnterStartTime
  \/ EnterMarkOpen
  \/ StartCall
  \/ \E s \in Sessions, f \in DriverFrames :
       DriverDeviceDelivers /\ FillBuffer(s, f)
  \/ \E s \in Sessions : GenPull(s)
  \/ \E s \in Sessions : GenLimit(s)
  \/ \E s \in Sessions : GenGet(s)
  \/ \E s \in Sessions : GenDrain(s)
  \/ \E r \in DriverResponses : RecognizerDelivers /\ Dispatch(r)
  \/ \E o \in DriverOutcomes : RelayAnswers(o)
  \/ ResponsesEnd
  \/ ResponsesError
  \/ ExitStop
  \/ ExitMarkClosed
  \/ ExitPut
  \/ ExitTerminate

Spec == Init /\ [][Next]_vars

\* --- SpecStream: one capture session from __enter__ to __exit__, with
\* every interleaving of the callback, the generator and the close
InitStream ==
  /\ pc = "listen"
  /\ cur = 1
  /\ now = 0
  /\ stream = [s \in Sessions |->
       IF s = 1 THEN [buff |-> << >>, closed |-> FALSE, start_time |-> 0,
                      device |-> "active"]
       ELSE NewStream]
  /\ gen = [s \in Sessions |->
       IF s = 1 THEN [pc |-> "start", data |-> << >>, at |-> "none"]
       ELSE NoGenerator]
  /\ enq = [s \in Sessions |-> << >>]
  /\ yielded = [s \in Sessions |-> << >>]
  /\ exc = "none"
  /\ loopEnd = "none"
  /\ exitSession = 0
  /\ num_chars_printed = 0
  /\ transcript = Unbound
  /\ response = NoResults
  /\ processed = << >>
  /\ posts = << >>
  /\ console = << >>

NextStream ==
  \/ \E d \in ClockSteps : ClockRuns(d) /\ Tick(d)
  \/ \E f \in Frames : DeviceDelivers(1) /\ FillBuffer(1, f)
  \/ GenPull(1)
  \/ GenLimit(1)
  \/ GenGet(1)
  \/ GenDrain(1)
  \/ ResponsesEnd
  \/ ResponsesError
  \/ ExitStop
  \/ ExitMarkClosed
  \/ ExitPut
  \/ ExitTerminate

SpecStream == InitStream /\ [][NextStream]_vars

\* --- SpecStreamFair: one capture session as in SpecStream, the clock
\* jumping past the duration limit in one step.  The thread that runs a
\* pull of the generator goes on running it (lines 58-75) and the main
\* thread runs __exit__ to its end; whether the consumer asks for another
\* chunk after a yield is left open.
NextStreamFair ==
  \/ \E d \in DriverClockSteps : ClockRuns(d) /\ Tick(d)
  \/ \E f \in Frames : DeviceDelivers(1) /\ FillBuffer(1, f)
  \/ GenPull(1)
  \/ GenLimit(1)
  \/ GenGet(1)
  \/ GenDrain(1)
  \/ ResponsesEnd
  \/ ResponsesError
  \/ ExitStop
  \/ ExitMarkClosed
  \/ ExitPut
  \/ ExitTerminate

SpecStreamFair ==
  /\ InitStream
  /\ [][NextStreamFair]_vars
  /\ WF_vars(GenLimit(1))
  /\ WF_vars(GenGet(1))
  /\ WF_vars(GenDrain(1))
  /\ WF_vars(ExitStop)
  /\ WF_vars(ExitMarkClosed)
  /\ WF_vars(ExitPut)
  /\ WF_vars(ExitTerminate)

\* --- SpecDispatch: one call of listen_print_loop over every response
\* sequence, in a session whose chunk sequence has ended by timeout
InitDispatch ==
  /\ pc = "listen"
  /\ cur = 1
  /\ now = STREAM_DURATION_LIMIT + 1
  /\ stream = [s \in Sessions |->
       IF s = 1 THEN [buff |-> << >>, closed |-> FALSE, start_time |-> 0,
                      device |-> "active"]
       ELSE NewStream]
  /\ gen = [s \in Sessions |-> IF s = 1 THEN Done("timeout") ELSE NoGenerator]
  /\ enq = [s \in Sessions |-> << >>]
  /\ yielded = [s \in Sessions |-> << >>]
  /\ exc = "none"
  /\ loopEnd = "none"
  /\ exitSession = 0
  /\ num_chars_printed = 0
  /\ transcript = Unbound
  /\ response = NoResults
  /\ processed = << >>
  /\ posts = << >>
  /\ console = << >>

NextDispatch ==
  \/ \E r \in Responses : RecognizerDelivers /\ Dispatch(r)
  \/ \E o \in RelayOutcomes : RelayAnswers(o)
  \/ ResponsesEnd
  \/ ResponsesError

SpecDispatch == InitDispatch /\ [][NextDispatch]_vars

\* ------------------------------------------------------------ claims
SentinelCount(items) == Len(items) - Len(Buffers(items))

\* C1: once the sentinel has been enqueued and generator() has finished by
\* reading it, the concatenation of the chunks it yielded equals the concatenation of
\* the buffers enqueued: no enqueued buffer is lost.
C1_NoBufferLost ==
  \A s \in Sessions :
    (gen[s].pc = "done" /\ gen[s].at = "sentinel" /\ SentinelCount(enq[s]) > 0)
      => Join(yielded[s]) = Join(Buffers(enq[s]))

\* C2: in every state the concatenation of the chunks yielded so far is a
\* prefix of the concatenation of the buffers enqueued so far.
C2_YieldedIsPrefix ==
  \A s \in Sessions : IsPrefix(Join(yielded[s]), Join(Buffers(enq[s])))

\* two different buffers were delivered in two chunks, in order
C2_Witness ==
  /\ Buffers(enq[1]) = << <<1>>, <<2, 3>> >>
  /\ yielded[1] = << <<1>>, <<2, 3>> >>

\* more than STREAM_DURATION_LIMIT seconds have elapsed in session s
PastLimit(s) ==
  /\ stream[s].start_time # NoTime
  /\ now - stream[s].start_time > STREAM_DURATION_LIMIT

\* C3: a pull that begins when more than STREAM_DURATION_LIMIT seconds have
\* elapsed since the session started ends the chunk sequence at once,
\* yielding nothing, even with buffers queued: past the limit the pull takes
\* nothing from the queue on its way from its beginning (line 57) through
\* the duration check (line 58), it ends at that check at the latest, the
\* elapsed time never falls back under the limit in between, and a
\* sequence that has ended yields nothing more.
C3_TimeoutEndsSequence ==
  [][\A s \in Sessions :
       /\ (PastLimit(s) /\ gen[s].pc \in {"start", "yield"})
          => /\ gen'[s].pc \in {gen[s].pc, "limit", "done"}
             /\ yielded'[s] = yielded[s]
             /\ IsPrefix(stream[s].buff, stream'[s].buff)
       /\ (PastLimit(s) /\ gen[s].pc = "limit")
          => /\ gen'[s].pc \in {"limit", "done"}
             /\ yielded'[s] = yielded[s]
             /\ IsPrefix(stream[s].buff, stream'[s].buff)
       /\ (PastLimit(s) /\ gen[s].pc # "none") => PastLimit(s)'
       /\ gen[s].pc = "done"
          => (gen'[s].pc = "done" /\ yielded'[s] = yielded[s])]_vars

\* the sequence ended at the duration check with a buffer still queued
C3_Witness ==
  \E s \in Sessions :
    /\ gen[s].pc = "done"
    /\ gen[s].at = "timeout"
    /\ Buffers(stream[s].buff) # << >>

\* C4: a session that was opened and whose scope main has left is closed:
\* device stopped and released, closed = True, and the sentinel enqueued
\* exactly once (and never more than once at any time).
OutOfScope(s) == s < cur \/ pc \in {"loop", "stopped"}

C4_CloseOnEveryExit ==
  \A s \in Sessions :
    /\ SentinelCount(enq[s]) <= 1
    /\ (s <= cur /\ stream[s].start_time # NoTime /\ OutOfScope(s))
         => /\ stream[s].device = "terminated"
            /\ stream[s].closed
            /\ SentinelCount(enq[s]) = 1

\* session 1 was left by the exit-phrase break and session 2 by an
\* exception, and both have been closed
C4_Witness ==
  /\ cur = 2
  /\ exitSession = 1
  /\ pc = "stopped"
  /\ exc \in {"RpcError", "UnicodeDecodeError", "UnboundLocalError"}
  /\ stream[1].device = "terminated"
  /\ stream[2].device = "terminated"

\* C5: once the exit phrase has been detected in a session, no further
\* session is opened and no further streaming call is started.
C5_ExitPhraseStopsDriver ==
  exitSession # 0 => cur = exitSession

\* C6: a device-open failure or a recognizer stream error does not stop
\* the driver: main is still running and will go round its loop.
C6_ErrorDoesNotStopDriver ==
  exc \in {"OSError", "RpcError"} => pc # "stopped"

\* C7: when the dispatcher loop completes because the responses are
\* exhausted (the chunk sequence ended), main closes the session and goes
\* round its loop, whatever responses the session produced.
C7_ChunkEndRestarts ==
  loopEnd = "exhausted" => pc # "stopped"

\* the POSTs the claim expects for a log of processed responses
RECURSIVE ExpectedPosts(_)
ExpectedPosts(log) ==
  IF log = << >> THEN << >>
  ELSE LET r == Head(log).response
           usable == r.results # << >> /\ r.results[1].alternatives # << >>
       IN  IF usable /\ r.results[1].is_final
              /\ r.results[1].alternatives[1].transcript # << >>
             THEN << [Question |-> r.results[1].alternatives[1].transcript] >>
                    \o ExpectedPosts(Tail(log))
             ELSE ExpectedPosts(Tail(log))

\* the responses the loop has taken: those of the passes made and, while
\* main waits for the backend, the one of the pass under way
Taken ==
  IF pc = "post" THEN Append(processed, [response |-> response])
  ELSE processed

\* C8: the POSTs issued by a call of listen_print_loop are exactly one per
\* processed final result with a non-empty transcript, carrying that
\* transcript, in response order; interim results cause none.
C8_OnePostPerFinal ==
  posts = ExpectedPosts(Taken)

\* an interim result and then a final one were processed: one POST
C8_Witness ==
  /\ Len(processed) = 2
  /\ processed[1].response = Interim(T_hello)
  /\ processed[2].response = Final(T_hi)
  /\ posts = << [Question |-> T_hi] >>

\* C9: when the relay call of a pass fails with a requests.RequestException
\* the pass does not raise, the exit-phrase check is evaluated, and if the
\* transcript does not match, num_chars_printed is 0 after the pass and the
\* loop continues.
C9_RelayErrorIsolated ==
  \A i \in DOMAIN processed :
    processed[i].relay \in RequestExceptions
      => /\ processed[i].control # "raise"
         /\ processed[i].searched
         /\ LET t == processed[i].response.results[1].alternatives[1].transcript
            IN  ~ExitPhrase(t)
                  => /\ processed[i].control = "continue"
                     /\ processed[i].after = 0
                     /\ i = Len(processed) => num_chars_printed = 0

\* after an interim line the relay failed on a final result, and the loop
\* is waiting for the next response with the count reset
C9_Witness ==
  /\ Len(processed) = 2
  /\ processed[1].response = Interim(T_hello)
  /\ processed[2].response = Final(T_exiting)
  /\ processed[2].relay = "ConnectionError"
  /\ processed[2].before = 5
  /\ num_chars_printed = 0
  /\ pc = "listen"

\* C10: no POST carries an empty transcript.
C10_NoEmptyPost ==
  \A i \in DOMAIN posts : posts[i].Question # << >>

\* a final result with an empty transcript was processed
C10_Witness ==
  \E i \in DOMAIN processed :
    /\ processed[i].response = Final(T_empty)
    /\ processed[i].relay = "unused"
    /\ processed[i].control = "continue"

\* C11: once close() has enqueued the sentinel of a session nothing more is
\* enqueued on that queue; when the generator has read the sentinel the
\* queue is empty (the sentinel was its last item), and the generator
\* yields nothing afterwards.
C11_SentinelIsLast ==
  [][\A s \in Sessions :
       /\ SentinelCount(enq[s]) > 0 => enq'[s] = enq[s]
       /\ gen'[s].at = "sentinel" => stream'[s].buff = << >>
       /\ gen[s].at = "sentinel"
            => (yielded'[s] = yielded[s] /\ gen'[s] = gen[s])]_vars

\* the generator delivered a chunk and later ended by reading the sentinel
C11_Witness ==
  \E s \in Sessions :
    /\ gen[s].at = "sentinel"
    /\ stream[s].device = "terminated"
    /\ yielded[s] # << >>

Usable(r) == r.results # << >> /\ r.results[1].alternatives # << >>

\* C12: for every response with a usable result, interim or final, the line
\* written is the transcript, then max(0, L - M) spaces, then the line end,
\* where L is num_chars_printed before the response and M the length of the
\* transcript; the number of spaces is never negative and never above L.
C12_TrailingSpaces ==
  \A i \in DOMAIN processed :
    LET e == processed[i]
        r == e.response
    IN  Usable(r) =>
          LET t == r.results[1].alternatives[1].transcript
              L == e.before
              M == Len(t)
              w == e.writes[1]
              k == Len(w) - M - 1
          IN  /\ k = (IF L - M > 0 THEN L - M ELSE 0)
              /\ k >= 0
              /\ k <= L
              /\ SubSeq(w, 1, M) = t
              /\ \A j \in (M + 1)..(M + k) : w[j] = " "
              /\ w[Len(w)] = (IF r.results[1].is_final THEN "\n" ELSE "\r")

\* "hello" (L = 0 < M = 5, no spaces) and then a final "hi" (L = 5, M = 2)
\* written with three trailing spaces
C12_Witness ==
  /\ Len(processed) = 2
  /\ processed[1].response = Interim(T_hello)
  /\ processed[1].writes = << <<"h","e","l","l","o","\r">> >>
  /\ processed[2].response = Final(T_hi)
  /\ processed[2].writes = << <<"h","i"," "," "," ","\n">> >>

\* the characters that differ from the lower-case letter l in case only: l,
\* its capital, and for "i" the two further case forms Unicode gives it
\* (capital I with dot above, dotless i)
CaseForms(l) ==
  {l} \cup {UpperLetters[j] : j \in {n \in DOMAIN LowerLetters : LowerLetters[n] = l}}
      \cup (IF l = "i" THEN {"U+0130", "U+0131"} ELSE {})

\* further texts for the search: one character in front of "exit" or behind
\* it, "exit" with dotless i, "quit" inside a sentence
ExitProbes ==
  LET cs == OtherWordChars \cup OtherChars \cup {" ", ",", "_", "7", "s", "S"}
  IN  {<<c>> \o T_exit : c \in cs} \cup {T_exit \o <<c>> : c \in cs}
        \cup {T_exit_dotless, T_go_quit_x}

\* t holds the word w at index i, ignoring case, with no word character
\* right before it or right after it
WholeWordAt(t, i, w) ==
  /\ i >= 1
  /\ i + Len(w) - 1 <= Len(t)
  /\ \A k \in 1..Len(w) : t[i + k - 1] \in CaseForms(w[k])
  /\ (i = 1 \/ ~IsWordChar(t[i - 1]))
  /\ (i + Len(w) - 1 = Len(t) \/ ~IsWordChar(t[i + Len(w)]))

ContainsExitWord(t) ==
  \E i \in 1..Len(t), w \in ExitWords : WholeWordAt(t, i, w)

\* the search finds the exit phrase in a probe exactly when the probe holds
\* "exit" or "quit" as a whole word
ExitProbesAgree ==
  /\ ExitPhrase(T_please_exit_now)
  /\ ExitPhrase(T_QUIT)
  /\ ~ExitPhrase(T_exiting)
  /\ \A t \in ExitProbes : ExitPhrase(t) <=> ContainsExitWord(t)
  /\ \A c \in OtherWordChars :
       ~ExitPhrase(<<c>> \o T_exit) /\ ~ExitPhrase(T_exit \o <<c>>)
  /\ \A c \in OtherChars :
       ExitPhrase(<<c>> \o T_exit) /\ ExitPhrase(T_exit \o <<c>>)

\* C13: a final transcript ends the loop exactly when it contains "exit" or
\* "quit" as a whole word, case-insensitively; "please exit now" and "QUIT"
\* match, "exiting" does not; only a match ends the loop by `break`.
\* Letters, digits and case forms are those of Unicode: "exit" right after
\* e with acute is no whole word, "EXIT" written with the dotted capital I
\* is the word in another case.
C13_ExitPhraseWholeWord ==
  /\ ExitProbesAgree
  /\ \A i \in DOMAIN processed :
       LET e == processed[i] IN
       /\ e.searched =>
            (e.control = "break"
               <=> ContainsExitWord(e.response.results[1].alternatives[1].transcript))
       /\ e.control = "break" =>
            /\ e.searched
            /\ e.response.results[1].is_final
            /\ ContainsExitWord(e.response.results[1].alternatives[1].transcript)

\* "exiting" was processed as final and the loop went on; "please exit now"
\* then ended it
C13_Witness ==
  /\ Len(processed) = 2
  /\ processed[1].response = Final(T_exiting)
  /\ processed[1].searched
  /\ processed[1].control = "continue"
  /\ processed[2].response = Final(T_please_exit_now)
  /\ processed[2].control = "break"
  /\ loopEnd = "break"

\* the usable responses of a log, in order
RECURSIVE UsableResponses(_)
UsableResponses(log) ==
  IF log = << >> THEN << >>
  ELSE IF Usable(Head(log).response)
         THEN <<Head(log).response>> \o UsableResponses(Tail(log))
         ELSE UsableResponses(Tail(log))

LastUsable(log) == UsableResponses(log)[Len(UsableResponses(log))]

SawFinal(log) ==
  \E i \in DOMAIN log :
    Usable(log[i].response) /\ log[i].response.results[1].is_final

\* the for loop is over and `return transcript` has been executed
LoopReturns == loopEnd \in {"exhausted", "break"}

\* C14 (as stated): the call returns the transcript of the last result it
\* saw, and hands back no transcript when no result was final.
C14_NoTranscriptWithoutFinal ==
  LoopReturns =>
    /\ (exc = "none" /\ UsableResponses(processed) # << >>)
         => transcript.text
              = LastUsable(processed).results[1].alternatives[1].transcript
    /\ ~SawFinal(processed) => ~(exc = "none" /\ transcript.bound)

\* C14 (amended): the call returns the transcript of the last usable result
\* it processed, interim or final; it hands back no transcript only when no
\* response had a usable result, and then `return transcript` raises
\* UnboundLocalError.
C14_ReturnsLastUsable ==
  LoopReturns =>
    IF UsableResponses(processed) # << >>
      THEN /\ exc = "none"
           /\ transcript.bound
           /\ transcript.text
                = LastUsable(processed).results[1].alternatives[1].transcript
      ELSE /\ exc = "UnboundLocalError"
           /\ ~transcript.bound

\* only interim results were seen and the call returned the last of them
C14_Witness ==
  /\ loopEnd = "exhausted"
  /\ exc = "none"
  /\ Len(processed) = 2
  /\ processed[1].response = Interim(T_hello)
  /\ processed[2].response = Interim(T_hi)
  /\ transcript = [bound |-> TRUE, text |-> T_hi]

\* __exit__ has stopped the device of session 1
CloseBegun == stream[1].device \in {"closed", "terminated"}

\* the consumer of generator() is in a pull (at the duration check, blocked
\* in get, draining) or suspended at a yield
Pulling == gen[1].pc \in {"limit", "get", "drain"}
InFlight == Pulling \/ gen[1].pc = "yield"

\* C15 (as stated): if close() runs while a consumer of generator() is in
\* flight (blocked in get, draining, or suspended at a yield), the
\* generator eventually finishes.
C15_GeneratorAlwaysFinishes ==
  (CloseBegun /\ InFlight) ~> (gen[1].pc = "done")

\* C15 (amended): if close() runs while a consumer of generator() is in
\* flight, a pull in progress always comes to its end, by a yield or by the
\* end of the sequence, never blocked forever on the queue; from the moment
\* the device has been stopped the generator yields at most one more chunk;
\* a pull begun once closed is set ends the sequence at once; and the
\* generator finishes provided the consumer asks for the next chunk after
\* a yield.
C15_ConsumerTerminates ==
  /\ (CloseBegun /\ Pulling) ~> (gen[1].pc \in {"yield", "done"})
  /\ \A n \in 0..MaxFrames :
       []((CloseBegun /\ Len(yielded[1]) = n) => [](Len(yielded[1]) <= n + 1))
  /\ [][(stream[1].closed /\ gen[1].pc \in {"start", "yield"}
           /\ gen'[1] # gen[1]) => gen'[1].pc = "done"]_vars
  /\ WF_vars(GenPull(1)) => ((CloseBegun /\ InFlight) ~> (gen[1].pc = "done"))

\* the generator yielded its one more chunk after the device was stopped and
\* then finished
C15_Witness ==
  /\ stream[1].device = "terminated"
  /\ gen[1].pc = "done"
  /\ Len(yielded[1]) = 2

OverLimit == PastLimit(1)

\* C16: the generator ends at the duration check only at the top of a pull,
\* line 58 (never from the blocking get or the drain), and from the moment the
\* elapsed time exceeds the limit it yields at most one more chunk.
C16_LimitCheckedAtTopOnly ==
  /\ [][\A s \in Sessions :
          (gen'[s].at = "timeout" /\ gen[s].at # "timeout")
            => gen[s].pc = "limit"]_vars
  /\ [][\A s \in Sessions :
          (gen[s].pc \in {"get", "drain"} /\ gen'[s].pc = "done")
            => gen'[s].at = "sentinel"]_vars
  /\ \A n \in 0..MaxFrames :
       []((OverLimit /\ Len(yielded[1]) = n) => [](Len(yielded[1]) <= n + 1))

\* past the limit, after one chunk, a pull is in progress whose drain found
\* the queue empty: the next step yields the one more chunk
C16_Witness ==
  /\ OverLimit
  /\ ~stream[1].closed
  /\ Len(yielded[1]) = 1
  /\ gen[1].pc = "drain"
  /\ stream[1].buff = << >>

\* C17: while the device of a session is open the enqueue by _fill_buffer
\* is enabled for every buffer, whatever the length of the queue and the
\* position of the consumer (the queue is never full: the callback never
\* waits), and an enqueue puts the buffer at the tail of the queue and
\* takes nothing off it (the callback never drops).
C17_EnqueueAlwaysEnabled ==
  /\ [](\A s \in Sessions :
         stream[s].device = "active"
           => /\ ~QueueFull(stream[s].buff)
              /\ \A f \in Frames : ENABLED FillBuffer(s, f))
  /\ [][\A s \in Sessions :
          (Len(Buffers(enq'[s])) > Len(Buffers(enq[s])))
            => /\ stream'[s].buff
                    = Append(stream[s].buff, enq'[s][Len(enq'[s])])
               /\ gen'[s] = gen[s]]_vars

\* the consumer has not pulled yet and the queue already holds every buffer
\* the exploration delivers
C17_Witness ==
  /\ stream[1].device = "active"
  /\ gen[1].pc = "start"
  /\ Len(stream[1].buff) = MaxFrames

\* what the claim expects num_chars_printed to be after a log of responses:
\* the length of the most recent interim transcript since the last final
\* result, 0 if there is none
RECURSIVE ExpectedCount(_)
ExpectedCount(log) ==
  IF log = << >> THEN 0
  ELSE LET r == log[Len(log)].response IN
       IF ~Usable(r) THEN ExpectedCount(SubSeq(log, 1, Len(log) - 1))
       ELSE IF r.results[1].is_final THEN 0
       ELSE Len(r.results[1].alternatives[1].transcript)

\* C18 (as stated): after each response processed, num_chars_printed is the
\* length of the most recent interim transcript since the last final
\* result, and 0 if there is none.
C18_CountAfterEveryResponse ==
  \A i \in DOMAIN processed :
    processed[i].after = ExpectedCount(SubSeq(processed, 1, i))

\* C18 (amended): the same after each response from which the loop goes on
\* to the next one; a final result that ends the loop (exit phrase, or an
\* exception leaving the relay) leaves num_chars_printed as it was.
C18_CountWhileLoopContinues ==
  /\ \A i \in DOMAIN processed :
       IF processed[i].control = "continue"
         THEN processed[i].after = ExpectedCount(SubSeq(processed, 1, i))
         ELSE processed[i].after = processed[i].before
  /\ pc = "listen" => num_chars_printed = ExpectedCount(processed)

\* an interim "hello", then a skipped response: the count is still 5
C18_Witness ==
  /\ pc = "listen"
  /\ Len(processed) = 2
  /\ processed[1].response = Interim(T_hello)
  /\ processed[2].response = NoResults
  /\ num_chars_printed = 5

\* C19: a response with no results, or whose first result has no
\* alternatives, has no effect: num_chars_printed and transcript are
\* unchanged, nothing is written, the relay is not called, the exit-phrase
\* check is not evaluated and the loop goes on.
C19_SkippedHasNoEffect ==
  [][(processed' # processed /\ ~Usable(processed'[Len(processed')].response))
       => /\ UNCHANGED <<num_chars_printed, transcript, console, posts>>
          /\ UNCHANGED <<pc, exc, loopEnd, exitSession>>
          /\ processed'[Len(processed')].relay = "unused"
          /\ ~processed'[Len(processed')].searched
          /\ processed'[Len(processed')].writes = << >>]_vars

\* after an interim "hello" a final result without alternatives was
\* skipped: the count is still 5 and one line has been written
C19_Witness ==
  /\ Len(processed) = 2
  /\ processed[1].response = Interim(T_hello)
  /\ processed[2].response = NoAlternatives(TRUE)
  /\ num_chars_printed = 5
  /\ Len(console) = 1
  /\ posts = << >>
  /\ pc = "listen"

\* C20: when the response sequence is exhausted without the iteration
\* raising, listen_print_loop completes without raising, also for the empty
\* sequence and for a sequence of skipped responses only.
C20_LoopCompletesWithoutRaising ==
  loopEnd = "exhausted" => exc = "none"
====
